---------------------------- MODULE Spec2Model ----------------------------
(***************************************************************************)
(* Model of the XanaduAI/plaas-examples tutorial notebooks: the gradient   *)
(* descent loops, the circuits they optimise and the devices the circuits  *)
(* are evaluated on.                                                       *)
(*                                                                         *)
(* Real numbers are fixed-point integers with Scale units per 1.0, kept    *)
(* inside TLC's 32-bit integers by splitting every product in two halves.  *)
(***************************************************************************)
EXTENDS Integers, Sequences, FiniteSets, TLC

VARIABLES
  nb,        \* the notebook being run
  pc,        \* the position in its cell: init, loop, run, done
  i,         \* the number of loop iterations completed (the next loop index)
  params,    \* the parameter vector the loop rebinds at every step
  nupdates,  \* how many times GradientDescentOptimizer.step has been called
  lastCost,  \* the cost last printed
  dev_state, \* dev.state: the state the notebook's device holds
  tape,      \* the operations of the running QNode call still to be applied
  call,      \* the QNode call being executed: its name and its argument
  evals,     \* how many QNode calls have returned
  vals,      \* the values returned so far in the current cost_fn or batch
  lanes,     \* the state and the remaining operations of every batch item
  seen,      \* history: per call, its first value, how often it returned
             \* and whether every return gave that value
  last,      \* history: the call that returned last
  diff,      \* the channel whose parameter was differentiated last, and how
  rng,       \* the generator behind jax.random, fixed for the run
  job,       \* the remote job: its status on the platform, the status the
             \* job object has cached, the shots measured and the result
  best,      \* best_cost and best_params of the state-preparation loop
  adam,      \* the moments and the step count of torch.optim.Adam
  gev        \* the gradient evaluation in progress: the parameters on the
             \* tape, the component being shifted and the values so far

(***************************************************************************)
(* Evaluation order.  Python evaluates an argument once, before the call.  *)
(* TLC evaluates an operator's argument again at every use inside ENABLED, *)
(* so an operator that uses an argument more than once first binds its     *)
(* value: Only({F(x) : x \in {e}}) is F(e) with e evaluated once.  A state *)
(* vector is a tuple, built once per gate by Tup.                          *)
(***************************************************************************)
Only(S) == CHOOSE x \in S : TRUE
Tup(f) == f \o << >>

(***************************************************************************)
(* Fixed-point arithmetic (the float64 arithmetic of numpy, to 1e-8).      *)
(***************************************************************************)
Half == 100 * 100
Scale == Half * Half

Abs(x) == IF x < 0 THEN -x ELSE x

\* a * b / Scale for a, b >= 0, rounded to nearest, without overflow.
MulNat(a, b) ==
  LET ah == a \div Half
      al == a % Half
      bh == b \div Half
      bl == b % Half
  IN  ah * bh + ((ah * bl + al * bh + ((al * bl + (Scale \div 2)) \div Half)) \div Half)

MulVal(a, b) ==
  IF (a < 0) = (b < 0) THEN MulNat(Abs(a), Abs(b)) ELSE -MulNat(Abs(a), Abs(b))

\* The product of two fixed-point numbers.
Mul(a, b) == Only({MulVal(x, y) : x \in {a}, y \in {b}})

\* a / n for an integer n > 0, rounded towards zero.
DivInt(a, n) == Only({IF x < 0 THEN -((-x) \div n) ELSE x \div n : x \in {a}})

\* a / n for a >= 0 and an integer n > 0, rounded to nearest.
DivNat(a, n) == (a + (n \div 2)) \div n

Clamp(x, lo, hi) == Only({IF v < lo THEN lo ELSE IF v > hi THEN hi ELSE v : v \in {x}})

\* The next n decimal digits of r / b for 0 <= r < b, appended to acc.
RECURSIVE DivDigits(_, _, _, _)
DivDigits(r, b, n, acc) ==
  IF n = 0 THEN acc
  ELSE DivDigits((r * 10) % b, b, n - 1, acc * 10 + ((r * 10) \div b))

\* a / b for b > 0, truncated towards zero.
DivVal(a, b) ==
  Only({(IF x < 0 THEN -1 ELSE 1)
          * ((Abs(x) \div y) * Scale + DivDigits(Abs(x) % y, y, 8, 0)) :
          x \in {a}, y \in {b}})

\* n rounds of Newton's iteration y -> (y + x / y) / 2 for the square root.
RECURSIVE Newton(_, _, _)
Newton(x, y, n) == IF n = 0 THEN y ELSE Newton(x, (y + DivVal(x, y)) \div 2, n - 1)

\* The square root of x for 0 <= x <= 1.
Sqrt(x) == IF x = 0 THEN 0 ELSE Only({Newton(v, Scale, 40) : v \in {x}})

\* The decimal number whole.frac8 (frac8 has eight digits).
Dec(whole, frac8) == whole * Scale + frac8

Pi == Dec(3, 14159265)
HalfPi == Pi \div 2
TwoPi == 2 * Pi

\* sin z for |z| <= pi/2 and z2 = z^2: the Taylor series up to z^15 in
\* Horner form.
SinPoly(z, z2) ==
  LET t7 == Scale - DivNat(z2, 210)
      t6 == Scale - DivNat(Mul(z2, t7), 156)
      t5 == Scale - DivNat(Mul(z2, t6), 110)
      t4 == Scale - DivNat(Mul(z2, t5), 72)
      t3 == Scale - DivNat(Mul(z2, t4), 42)
      t2 == Scale - DivNat(Mul(z2, t3), 20)
      t1 == Scale - DivNat(Mul(z2, t2), 6)
  IN  Clamp(Mul(z, t1), -Scale, Scale)

SinTaylor(z) == Only({SinPoly(x, x2) : x2 \in {MulVal(x, x) : x \in {z}}, x \in {z}})

\* sin y for y in [-pi, pi], folded into [-pi/2, pi/2].
SinReduced(y) ==
  IF y > HalfPi THEN SinTaylor(Pi - y)
  ELSE IF y < -HalfPi THEN SinTaylor(-Pi - y)
  ELSE SinTaylor(y)

Sin(x) == Only({SinReduced(y) : y \in {((x + Pi) % TwoPi) - Pi}})

Cos(x) == Sin(x + HalfPi)

(***************************************************************************)
(* Pure states of n qubits: the tuple of the 2^n complex amplitudes        *)
(* [re, im], the amplitude of basis state b at position b + 1.  Wire 0 is  *)
(* the most significant bit.                                               *)
(***************************************************************************)
Pow2(n) == IF n = 0 THEN 1 ELSE IF n = 1 THEN 2 ELSE IF n = 2 THEN 4 ELSE 8

Cx(a, b) == [re |-> a, im |-> b]

\* |u|^2
CNorm2(u) == Only({MulVal(v.re, v.re) + MulVal(v.im, v.im) : v \in {u}})

\* Bit w of the basis state at position k, and the position with it flipped.
Bit(k, w, n) == ((k - 1) \div Pow2(n - 1 - w)) % 2
FlipBit(k, w, n) == IF Bit(k, w, n) = 0 THEN k + Pow2(n - 1 - w) ELSE k - Pow2(n - 1 - w)

\* The all-zero state |0...0> a device holds after reset().
ZeroState(n) == Tup([k \in 1..Pow2(n) |-> IF k = 1 THEN Cx(Scale, 0) ELSE Cx(0, 0)])

\* A mutant of the matrix below: [[c, s], [s, c]], which is not unitary.
RXMatrixReal(st, c, s, w, n) ==
  Tup([k \in 1..Pow2(n) |->
         Cx(MulVal(c, st[k].re) + MulVal(s, st[FlipBit(k, w, n)].re),
            MulVal(c, st[k].im) + MulVal(s, st[FlipBit(k, w, n)].im))])

\* The 2x2 matrix [[c, -i s], [-i s, c]] on wire w.
RXMatrix(st, c, s, w, n) ==
  Tup([k \in 1..Pow2(n) |->
         Cx(MulVal(c, st[k].re) + MulVal(s, st[FlipBit(k, w, n)].im),
            MulVal(c, st[k].im) - MulVal(s, st[FlipBit(k, w, n)].re))])

\* RX(theta) with c = cos(theta/2), s = sin(theta/2).
RX(st, theta, w, n) ==
  Only({RXMatrix(v, c, s, w, n) :
          v \in {st}, c \in {Cos(DivInt(theta, 2))}, s \in {Sin(DivInt(theta, 2))}})

\* A mutant of the matrix below: the symmetric [[c, s], [s, c]].
RYMatrixSymmetric(st, c, s, w, n) ==
  Tup([k \in 1..Pow2(n) |->
         Cx(MulVal(c, st[k].re) + MulVal(s, st[FlipBit(k, w, n)].re),
            MulVal(c, st[k].im) + MulVal(s, st[FlipBit(k, w, n)].im))])

\* The 2x2 matrix [[c, -s], [s, c]] on wire w.
RYMatrix(st, c, s, w, n) ==
  Tup([k \in 1..Pow2(n) |->
         IF Bit(k, w, n) = 0
         THEN Cx(MulVal(c, st[k].re) - MulVal(s, st[FlipBit(k, w, n)].re),
                 MulVal(c, st[k].im) - MulVal(s, st[FlipBit(k, w, n)].im))
         ELSE Cx(MulVal(s, st[FlipBit(k, w, n)].re) + MulVal(c, st[k].re),
                 MulVal(s, st[FlipBit(k, w, n)].im) + MulVal(c, st[k].im))])

\* RY(theta) with c = cos(theta/2), s = sin(theta/2).
RY(st, theta, w, n) ==
  Only({RYMatrix(v, c, s, w, n) :
          v \in {st}, c \in {Cos(DivInt(theta, 2))}, s \in {Sin(DivInt(theta, 2))}})

\* A mutant of the sum below: every term counted with the sign +.
ZSumUnsigned(st, w, n) ==
  LET sum[k \in 1..(Pow2(n) + 1)] == IF k = Pow2(n) + 1 THEN 0 ELSE CNorm2(st[k]) + sum[k + 1]
  IN  sum[1]

\* The sum of +-|amplitude|^2 by the bit of wire w.
ZSum(st, w, n) ==
  LET term(k) == IF Bit(k, w, n) = 0 THEN CNorm2(st[k]) ELSE -CNorm2(st[k])
      sum[k \in 1..(Pow2(n) + 1)] == IF k = Pow2(n) + 1 THEN 0 ELSE term(k) + sum[k + 1]
  IN  sum[1]

\* expval(PauliZ(w))
ExpvalZ(st, w, n) == Only({ZSum(v, w, n) : v \in {st}})

\* The 2x2 matrix diag(c - i s, c + i s) on wire w.
RZMatrix(st, c, s, w, n) ==
  Tup([k \in 1..Pow2(n) |->
         IF Bit(k, w, n) = 0
         THEN Cx(MulVal(c, st[k].re) + MulVal(s, st[k].im),
                 MulVal(c, st[k].im) - MulVal(s, st[k].re))
         ELSE Cx(MulVal(c, st[k].re) - MulVal(s, st[k].im),
                 MulVal(c, st[k].im) + MulVal(s, st[k].re))])

\* RZ(theta) with c = cos(theta/2), s = sin(theta/2).
RZ(st, theta, w, n) ==
  Only({RZMatrix(v, c, s, w, n) :
          v \in {st}, c \in {Cos(DivInt(theta, 2))}, s \in {Sin(DivInt(theta, 2))}})

\* The basis position CNOT(control, target) maps position k to.
CNOTPerm(k, control, target, n) ==
  IF Bit(k, control, n) = 1 THEN FlipBit(k, target, n) ELSE k

CNOTMatrix(st, control, target, n) ==
  Tup([k \in 1..Pow2(n) |-> st[CNOTPerm(k, control, target, n)]])

CNOT(st, control, target, n) ==
  Only({CNOTMatrix(v, control, target, n) : v \in {st}})

\* The position that agrees with k except that wire w has bit b.
WithBit(k, w, n, b) == IF Bit(k, w, n) = b THEN k ELSE FlipBit(k, w, n)

\* The product of two complex numbers.
CMulVal(u, v) ==
  Cx(MulVal(u.re, v.re) - MulVal(u.im, v.im), MulVal(u.re, v.im) + MulVal(u.im, v.re))

\* A|st> for a 2x2 complex matrix A (a tuple of two rows) on wire w.
MatrixOnWire(st, A, w, n) ==
  Tup([k \in 1..Pow2(n) |->
         LET x == CMulVal(A[Bit(k, w, n) + 1][1], st[WithBit(k, w, n, 0)])
             y == CMulVal(A[Bit(k, w, n) + 1][2], st[WithBit(k, w, n, 1)])
         IN  Cx(x.re + y.re, x.im + y.im)])

\* The real part of <st|A|st>, from st and A|st>.
InnerRe(st, ast) ==
  LET sum[k \in 1..(Len(st) + 1)] ==
        IF k = Len(st) + 1 THEN 0
        ELSE MulVal(st[k].re, ast[k].re) + MulVal(st[k].im, ast[k].im) + sum[k + 1]
  IN  sum[1]

\* expval(Hermitian(A, wires=w))
ExpvalHermitian(st, A, w, n) ==
  Only({InnerRe(v, av) : av \in {MatrixOnWire(u, A, w, n) : u \in {st}}, v \in {st}})

(***************************************************************************)
(* Mixed states of n qubits on default.mixed: the density matrix as a      *)
(* tuple of rows.  Every circuit of noisy_circuits.ipynb keeps it real     *)
(* (the notebook prints np.real(dev.state)).                               *)
(***************************************************************************)
ZeroRho(n) ==
  Tup([r \in 1..Pow2(n) |->
         Tup([c \in 1..Pow2(n) |-> IF r = 1 /\ c = 1 THEN Scale ELSE 0])])

\* The Hadamard entry H[bit r][bit a] times sqrt 2: -1 on |1><1|, else 1.
HSign(r, a, w, n) == IF Bit(r, w, n) = 1 /\ Bit(a, w, n) = 1 THEN -1 ELSE 1

\* H rho H on wire w.
HadamardRho(rho, w, n) ==
  Tup([r \in 1..Pow2(n) |->
    Tup([c \in 1..Pow2(n) |->
      LET fr == FlipBit(r, w, n)
          fc == FlipBit(c, w, n)
      IN  DivInt(  HSign(r, r, w, n) * HSign(c, c, w, n) * rho[r][c]
                 + HSign(r, r, w, n) * HSign(c, fc, w, n) * rho[r][fc]
                 + HSign(r, fr, w, n) * HSign(c, c, w, n) * rho[fr][c]
                 + HSign(r, fr, w, n) * HSign(c, fc, w, n) * rho[fr][fc], 2)])])

Hadamard(rho, w, n) == Only({HadamardRho(v, w, n) : v \in {rho}})

\* A mutant of the gate below: the target is never flipped.
CNOTRhoIdentity(rho, control, target, n) == rho

\* CNOT rho CNOT.
CNOTRhoMatrix(rho, control, target, n) ==
  Tup([r \in 1..Pow2(n) |->
    Tup([c \in 1..Pow2(n) |->
      rho[CNOTPerm(r, control, target, n)][CNOTPerm(c, control, target, n)]])])

CNOTRho(rho, control, target, n) ==
  Only({CNOTRhoMatrix(v, control, target, n) : v \in {rho}})

\* A mutant of the channel below: the term with probability p is not
\* flipped.
BitFlipRhoNoFlip(rho, pr, w, n) ==
  Tup([r \in 1..Pow2(n) |->
    Tup([c \in 1..Pow2(n) |-> MulVal(Scale - pr, rho[r][c]) + MulVal(pr, rho[r][c])])])

\* BitFlip(p): (1 - p) rho + p X rho X on wire w.
BitFlipRho(rho, pr, w, n) ==
  Tup([r \in 1..Pow2(n) |->
    Tup([c \in 1..Pow2(n) |->
      MulVal(Scale - pr, rho[r][c])
        + MulVal(pr, rho[FlipBit(r, w, n)][FlipBit(c, w, n)])])])

BitFlip(rho, pr, w, n) == Only({BitFlipRho(v, q, w, n) : v \in {rho}, q \in {pr}})

\* +1 when r and c agree on wire w, else -1: the sign Z rho Z and Y rho Y
\* give the entry (r, c).
Parity(r, c, w, n) == IF Bit(r, w, n) = Bit(c, w, n) THEN 1 ELSE -1

\* DepolarizingChannel(p): (1 - p) rho + p/3 (X rho X + Y rho Y + Z rho Z).
DepolarizingRho(rho, pr, w, n) ==
  Tup([r \in 1..Pow2(n) |->
    Tup([c \in 1..Pow2(n) |->
      LET x == rho[FlipBit(r, w, n)][FlipBit(c, w, n)]
          y == Parity(r, c, w, n) * rho[FlipBit(r, w, n)][FlipBit(c, w, n)]
          z == Parity(r, c, w, n) * rho[r][c]
      IN  MulVal(Scale - pr, rho[r][c]) + DivInt(MulVal(pr, x + y + z), 3)])])

DepolarizingChannel(rho, pr, w, n) ==
  Only({DepolarizingRho(v, q, w, n) : v \in {rho}, q \in {pr}})

\* A mutant of the channel below: the term K1 rho K1* is left out, so the
\* population that decays is lost.
AmplitudeDampingNoDecay(rho, gamma, root, w, n) ==
  Tup([r \in 1..Pow2(n) |->
    Tup([c \in 1..Pow2(n) |->
      IF Bit(r, w, n) = 0 /\ Bit(c, w, n) = 0
      THEN rho[r][c]
      ELSE IF Bit(r, w, n) = 1 /\ Bit(c, w, n) = 1
      THEN MulVal(Scale - gamma, rho[r][c])
      ELSE MulVal(root, rho[r][c])])])

\* AmplitudeDamping(gamma): K0 rho K0* + K1 rho K1* on wire w, with
\* K0 = diag(1, sqrt(1 - gamma)) and K1 = sqrt(gamma) |0><1|; root is
\* sqrt(1 - gamma).
AmplitudeDampingRho(rho, gamma, root, w, n) ==
  Tup([r \in 1..Pow2(n) |->
    Tup([c \in 1..Pow2(n) |->
      IF Bit(r, w, n) = 0 /\ Bit(c, w, n) = 0
      THEN rho[r][c] + MulVal(gamma, rho[FlipBit(r, w, n)][FlipBit(c, w, n)])
      ELSE IF Bit(r, w, n) = 1 /\ Bit(c, w, n) = 1
      THEN MulVal(Scale - gamma, rho[r][c])
      ELSE MulVal(root, rho[r][c])])])

AmplitudeDamping(rho, gamma, w, n) ==
  Only({AmplitudeDampingRho(v, q, Sqrt(Scale - q), w, n) : v \in {rho}, q \in {gamma}})

\* expval(PauliZ(0) @ PauliZ(1)): the trace of (Z x Z) rho.
ZZTrace(rho, n) ==
  LET sum[k \in 1..(Pow2(n) + 1)] ==
        IF k = Pow2(n) + 1 THEN 0
        ELSE (IF Bit(k, 0, n) = Bit(k, 1, n) THEN rho[k][k] ELSE -rho[k][k]) + sum[k + 1]
  IN  sum[1]

ExpvalZZ(rho, n) == Only({ZZTrace(v, n) : v \in {rho}})

(***************************************************************************)
(* basic_qubit_rotation.ipynb                                              *)
(***************************************************************************)
\* circuit(params): RX(params[0]); RY(params[1]); expval(PauliZ(0)) on dev1.
circuit_rot(p) == ExpvalZ(RY(RX(ZeroState(1), p[1], 0, 1), p[2], 0, 1), 0, 1)

cost_rot(x) == circuit_rot(x)

init_params_rot == <<Dec(0, 1100000), Dec(0, 1200000)>>
stepsize_rot == Dec(0, 40000000)
steps_rot == 100

\* A shift that moves every component instead of component k alone.
ShiftedAll(p, k, d) == [j \in 1..Len(p) |-> p[j] + d]

\* p with component k moved by d.
Shifted(p, k, d) == [p EXCEPT ![k] = p[k] + d]

\* The parameter-shift rule of a rotation gate: (f(p + pi/2) - f(p - pi/2)) / 2.
ShiftRule(fplus, fminus) == DivInt(fplus - fminus, 2)

grad_rot(p) ==
  Tup([k \in 1..Len(p) |->
         ShiftRule(cost_rot(Shifted(p, k, HalfPi)), cost_rot(Shifted(p, k, -HalfPi)))])

(***************************************************************************)
(* gaussian_transformation.ipynb.  The one-mode Gaussian state the circuit *)
(* reaches is a coherent state, held as the polar form of its mean.        *)
(***************************************************************************)
Vacuum == [r |-> 0, ang |-> 0]
\* Displacement(a, phi) of the vacuum, then Rotation(phi).
Displacement(g, a, phi) == [r |-> a, ang |-> phi]
Rotation(g, phi) == [g EXCEPT !.ang = g.ang + phi]
\* expval(NumberOperator): |alpha|^2.
ExpvalNumber(g) == Only({MulVal(v.r, v.r) : v \in {g}})

mean_photon_gaussian(mag_alpha, phase_alpha, phi) ==
  ExpvalNumber(Rotation(Displacement(Vacuum, mag_alpha, phase_alpha), phi))

cost_gauss(p) ==
  Only({MulVal(d, d) : d \in {mean_photon_gaussian(p[1], p[2], p[3]) - Scale}})

init_params_gauss == <<Dec(0, 1500000), Dec(0, 2000000), Dec(0, 500000)>>
stepsize_gauss == Dec(0, 10000000)
steps_gauss == 20

\* The shift of the Displacement gate's gradient recipe, 0.1; its
\* multiplier is 0.5 / 0.1 = 5.
DispShift == Dec(0, 10000000)

\* The QNode's gradient: the shift recipe per gate parameter.
grad_mean_photon(p) ==
  LET f(q) == mean_photon_gaussian(q[1], q[2], q[3])
  IN  << 5 * (f(Shifted(p, 1, DispShift)) - f(Shifted(p, 1, -DispShift))),
         ShiftRule(f(Shifted(p, 2, HalfPi)), f(Shifted(p, 2, -HalfPi))),
         ShiftRule(f(Shifted(p, 3, HalfPi)), f(Shifted(p, 3, -HalfPi))) >>

\* The chain rule through (n - 1)^2.
grad_gauss(p) ==
  Only({Tup([k \in 1..3 |-> MulVal(2 * d, g[k])]) :
          d \in {mean_photon_gaussian(p[1], p[2], p[3]) - Scale},
          g \in {grad_mean_photon(p)}})

(***************************************************************************)
(* plugins_hybrid.ipynb: photon redirection on dev_fock.  With             *)
(* cutoff_dim = 2 and one photon the state is held as the amplitudes of    *)
(* |1,0> and |0,1>.                                                        *)
(***************************************************************************)
\* qml.FockState(1, wires=0)
FockState1 == [c10 |-> Cx(Scale, 0), c01 |-> Cx(0, 0)]

\* e^{i phi} sin(theta)
PhaseSin(theta, phi) == Only({Cx(MulVal(sn, Cos(phi)), MulVal(sn, Sin(phi))) : sn \in {Sin(theta)}})
PhaseCos(theta, phi) == Only({Cx(MulVal(cs, Cos(phi)), MulVal(cs, Sin(phi))) : cs \in {Cos(theta)}})

Conj(u) == Cx(u.re, -u.im)
CAdd(u, v) == Cx(u.re + v.re, u.im + v.im)
CNeg(u) == Cx(-u.re, -u.im)
TimesI(u) == Cx(-u.im, u.re)
CScale(x, u) == Cx(MulVal(x, u.re), MulVal(x, u.im))

\* qml.Beamsplitter(theta, phi): [[cos, -e^{-i phi} sin], [e^{i phi} sin, cos]]
\* on the amplitudes of |1,0> and |0,1>.
Beamsplitter(st, theta, phi) ==
  Only({[c10 |-> CAdd(CScale(Cos(theta), v.c10), CNeg(CMulVal(Conj(ps), v.c01))),
         c01 |-> CAdd(CMulVal(ps, v.c10), CScale(Cos(theta), v.c01))] :
          v \in {st}, ps \in {PhaseSin(theta, phi)}})

\* The derivative of the Beamsplitter's output with respect to theta.
BeamsplitterDTheta(st, theta, phi) ==
  Only({[c10 |-> CAdd(CScale(-Sin(theta), v.c10), CNeg(CMulVal(Conj(pcs), v.c01))),
         c01 |-> CAdd(CMulVal(pcs, v.c10), CScale(-Sin(theta), v.c01))] :
          v \in {st}, pcs \in {PhaseCos(theta, phi)}})

\* A mutant of the derivative below: the factor i of the phase is lost.
BeamsplitterDPhiReal(st, theta, phi) ==
  Only({[c10 |-> CMulVal(Conj(ps), v.c01), c01 |-> CMulVal(ps, v.c10)] :
          v \in {st}, ps \in {PhaseSin(theta, phi)}})

\* The derivative of the Beamsplitter's output with respect to phi.
BeamsplitterDPhi(st, theta, phi) ==
  Only({[c10 |-> TimesI(CMulVal(Conj(ps), v.c01)), c01 |-> TimesI(CMulVal(ps, v.c10))] :
          v \in {st}, ps \in {PhaseSin(theta, phi)}})

\* expval(NumberOperator(1)): the probability of the photon in mode 1.
ExpvalNumber1(st) == CNorm2(st.c01)

\* The derivative of that expectation value along the derivative dst of
\* the state: 2 Re <st| n1 |dst>.
ExpvalNumber1D(st, dst) ==
  Only({2 * (MulVal(v.c01.re, d.c01.re) + MulVal(v.c01.im, d.c01.im)) : v \in {st}, d \in {dst}})

photon_redirection(p) == ExpvalNumber1(Beamsplitter(FockState1, p[1], p[2]))

cost_photon(p) == -photon_redirection(p)

init_params_photon == <<Dec(0, 1000000), Dec(0, 1000000)>>
\* The point of dphoton_redirection([0.0, 0.0]), where the notebook says a
\* descent would never start.
init_params_photon0 == <<0, 0>>
stepsize_photon == Dec(0, 40000000)
steps_photon == 100


\* dphoton_redirection = qml.grad(photon_redirection): the derivative with
\* respect to theta and to phi.
dphoton_redirection(p) ==
  Only({<<ExpvalNumber1D(v, BeamsplitterDTheta(FockState1, p[1], p[2])),
          ExpvalNumber1D(v, BeamsplitterDPhi(FockState1, p[1], p[2]))>> :
          v \in {Beamsplitter(FockState1, p[1], p[2])}})

\* A mutant of the gradient below: forward finite differences of step 1e-4.
dphoton_forward(p) ==
  Tup([k \in 1..Len(p) |->
         DivVal(cost_photon(Shifted(p, k, Scale \div 10000)) - cost_photon(p),
                Scale \div 10000)])

\* The gradient of cost: minus that of photon_redirection.
grad_photon(p) == Only({Tup([k \in 1..Len(g) |-> -g[k]]) : g \in {dphoton_redirection(p)}})

\* The start at exactly zero the Gaussian notebook avoids.
init_params_gauss0 == <<0, 0, 0>>

(***************************************************************************)
(* QNode calls.  A call is a record of the QNode's name and the argument   *)
(* that tells it from the other calls of the notebook; an operation is a   *)
(* record of the gate's name, its parameter and its wires.                 *)
(***************************************************************************)
NoCall == [name |-> "none", arg |-> 0]
Op(gate, theta, wires) == [g |-> gate, th |-> theta, w |-> wires]

\* The operations circuit(params) queues on dev1.
circuit_rot_ops(p) == << Op("RX", p[1], <<0>>), Op("RY", p[2], <<0>>) >>

\* print(circuit([0.54, 0.12])): the one call of the cell.
RotCalls == {[name |-> "circuit", arg |-> 0]}

\* The angles the circuit is evaluated at: the notebook's 0.54 and 0.12,
\* and 0, +-pi/2, +-pi and 2 pi.
Angles == {0, Dec(0, 12000000), Dec(0, 54000000), HalfPi, -HalfPi, Pi, -Pi, TwoPi}
RotInputs == {<<a, b>> : a \in Angles, b \in Angles}

(***************************************************************************)
(* state_preparation.ipynb                                                 *)
(***************************************************************************)
nr_qubits == 3
nr_layers == 2

\* np.random.seed(42); params = np.random.normal(0, np.pi, (nr_qubits,
\* nr_layers, 3)), flattened: params[q, j, g] is at 1 + 6 q + 3 j + g.
params_prep ==
  <<
     Dec(4, 78473942), -Dec(0, 73561451), -Dec(0, 73556295),
     Dec(4, 96124339), Dec(2, 41096731), -Dec(1, 47489729),
     Dec(1, 70450264), -Dec(1, 45586961), -Dec(1, 46313316),
     Dec(0, 76014689), -Dec(6, 1074715), -Dec(5, 41898918),
     -Dec(1, 76647837), -Dec(3, 18190281), Dec(0, 98723710),
     -Dec(2, 85264178), -Dec(4, 43688293), Dec(4, 60447141)
  >>

ParamAt(p, q, j, g) == p[1 + (nr_layers * 3) * q + 3 * j + g]

\* The target Bloch vector the notebook prints.
bloch_v == <<Dec(0, 33941241), -Dec(0, 9447812), Dec(0, 44257553)>>

\* Paulis: the X, Y and Z matrices.
Paulis ==
  << << <<Cx(0, 0), Cx(Scale, 0)>>, <<Cx(Scale, 0), Cx(0, 0)>> >>,
     << <<Cx(0, 0), Cx(0, -Scale)>>, <<Cx(0, Scale), Cx(0, 0)>> >>,
     << <<Cx(Scale, 0), Cx(0, 0)>>, <<Cx(0, 0), Cx(-Scale, 0)>> >> >>

\* RX, RY and RZ on qubit q with the parameters of layer j.
Rotations(p, q, j) ==
  << Op("RX", ParamAt(p, q, j, 0), <<q>>),
     Op("RY", ParamAt(p, q, j, 1), <<q>>),
     Op("RZ", ParamAt(p, q, j, 2), <<q>>) >>

\* layer(params, j): the rotations on every qubit, then the three CNOTs.
layer(p, j) ==
  Rotations(p, 0, j) \o Rotations(p, 1, j) \o Rotations(p, 2, j)
    \o << Op("CNOT", 0, <<0, 1>>), Op("CNOT", 0, <<0, 2>>), Op("CNOT", 0, <<1, 2>>) >>

\* circuit(params, A): for j in range(nr_layers): layer(params, j).
circuit_prep(p) == layer(p, 0) \o layer(p, 1)

\* cost_fn is called for best_cost and again for the first progress line.
cost_fn_calls == 2

PrepCalls == {[name |-> "circuit", arg |-> k] : k \in 1..3}

\* cost_fn: the sum over k of |circuit(params, Paulis[k]) - bloch_v[k]|.
cost_fn(v) ==
  Abs(v[1].val - bloch_v[1]) + Abs(v[2].val - bloch_v[2]) + Abs(v[3].val - bloch_v[3])

(***************************************************************************)
(* noisy_circuits.ipynb                                                    *)
(***************************************************************************)
ps == {Dec(0, 100000), Dec(0, 1000000), Dec(0, 10000000), Dec(0, 20000000)}

\* The Bell state preparation every circuit of the notebook starts with.
BellOps == << Op("Hadamard", 0, <<0>>), Op("CNOT", 0, <<0, 1>>) >>

circuit_noisy == BellOps
bitflip_circuit(pr) == BellOps \o << Op("BitFlip", pr, <<0>>), Op("BitFlip", pr, <<1>>) >>
depolarizing_circuit(pr) ==
  BellOps \o << Op("DepolarizingChannel", pr, <<0>>), Op("DepolarizingChannel", pr, <<1>>) >>

\* damping_circuit(x), as a function of the damping probability sigmoid(x).
damping_circuit(gamma) ==
  BellOps \o << Op("AmplitudeDamping", gamma, <<0>>), Op("AmplitudeDamping", gamma, <<1>>) >>

\* The damping probabilities of the first and the last call of the notebook:
\* sigmoid(0) for the initial x = 0.0, and the optimized p it prints.
gammas == {Dec(0, 50000000), Dec(0, 12710000)}

NoisyCalls ==
  {[name |-> "circuit", arg |-> 0]}
    \cup {[name |-> "bitflip_circuit", arg |-> pr] : pr \in ps}
    \cup {[name |-> "depolarizing_circuit", arg |-> pr] : pr \in ps}
    \cup {[name |-> "damping_circuit", arg |-> g] : g \in gammas}

\* How many QNode calls of the noisy notebook a run makes, in any order.
MaxEvals == 3

(***************************************************************************)
(* Channel gradients.  A Kraus operator is written as the 2x2 matrix of    *)
(* the squared magnitudes of its entries.                                  *)
(***************************************************************************)
Channels == {"BitFlip", "DepolarizingChannel", "AmplitudeDamping"}

\* The Kraus operators the notebook gives for each channel.
Kraus(ch, pr) ==
  IF ch = "BitFlip"
  THEN { << <<Scale - pr, 0>>, <<0, Scale - pr>> >>,
         << <<0, pr>>, <<pr, 0>> >> }
  ELSE IF ch = "DepolarizingChannel"
  THEN { << <<Scale - pr, 0>>, <<0, Scale - pr>> >>,
         << <<0, DivInt(pr, 3)>>, <<DivInt(pr, 3), 0>> >>,
         << <<DivInt(pr, 3), 0>>, <<0, DivInt(pr, 3)>> >> }
  ELSE { << <<Scale, 0>>, <<0, Scale - pr>> >>,
         << <<0, pr>>, <<0, 0>> >> }

\* K is a multiple of a unitary matrix: no row has two entries, and the two
\* columns have the same nonzero norm.
ProportionalToUnitary(K) ==
  /\ \A r \in 1..2 : K[r][1] = 0 \/ K[r][2] = 0
  /\ K[1][1] + K[2][1] = K[1][2] + K[2][2]
  /\ K[1][1] + K[2][1] > 0

\* A rule that differentiates every channel by finite differences.
AlwaysFiniteDifferences(ch, pr) == "finite-diff"
\* Analytic gradients for channels whose Kraus operators are proportional to
\* unitary matrices, finite differences in the other cases.
GradMethod(ch, pr) ==
  IF \A K \in Kraus(ch, pr) : ProportionalToUnitary(K) THEN "analytic" ELSE "finite-diff"

NoDiff == [channel |-> "none", method |-> "none"]

(***************************************************************************)
(* The JAX notebook: circuit(param) and vcircuit = jax.vmap(circuit).      *)
(***************************************************************************)
circuit_jax_ops(param) == << Op("RX", param, <<0>>), Op("CNOT", 0, <<0, 1>>) >>

\* circuit(param) evaluated alone.
circuit_jax(param) == ExpvalZ(CNOT(RX(ZeroState(2), param, 0, 2), 0, 1, 2), 0, 2)

\* The entries of batch_params.
BatchValues == {Dec(1, 2000000), Dec(0, 12300000), -Dec(0, 57100000)}

\* The arrays vcircuit is applied to: batch_params and the other arrays of
\* its length over its entries.
Batches == {<<a, b, c>> : a \in BatchValues, b \in BatchValues, c \in BatchValues}

batch_params == <<Dec(1, 2000000), Dec(0, 12300000), -Dec(0, 57100000)>>

\* The position of item j's result in the returned array of length n.
ResultSlotReversed(j, n) == n + 1 - j
ResultSlot(j, n) == j

(***************************************************************************)
(* The JAX notebook: randomness.  circuit(key, param) builds a device with *)
(* shots=10 and prng_key=key and returns qml.sample(qml.PauliZ(0)).        *)
(***************************************************************************)
shots == 10

\* The keys of the three calls: key1, key1, key2.
RandKeys == <<0, 0, 1>>

RandCalls == {[name |-> "circuit", arg |-> RandKeys[k]] : k \in 1..Len(RandKeys)}

\* jax.random is a fixed function of the key; which function is not part of
\* the notebook, so a run fixes one of a family of generators.
Generators == 0..7

\* The j-th uniform number in [0, 1) that generator g draws from the key.
Draw(g, key, j) ==
  ((((g + 3 * key + 1) * (2 * j + 1) * 7919) + g * j * j) % 1024) * (Scale \div 1024)

\* A device that mixes the number of earlier calls into its key.
DeviceKeyGlobal(key, calls) == key + calls
\* prng_key=key: the device draws from the key it is given.
DeviceKey(key, calls) == key

\* The probability of finding wire w in |0>.
ProbZero(st, w, n) ==
  LET sum[k \in 1..(Pow2(n) + 1)] ==
        IF k = Pow2(n) + 1 THEN 0
        ELSE (IF Bit(k, w, n) = 0 THEN CNorm2(st[k]) ELSE 0) + sum[k + 1]
  IN  sum[1]

\* One shot of qml.sample(qml.PauliZ(w)): the eigenvalue 1 or -1, drawn with
\* the uniform number u.
SampleZ(st, w, n, u) == IF u < ProbZero(st, w, n) THEN 1 ELSE -1

(***************************************************************************)
(* Demo-Simple-Circuit.ipynb: a two-mode program run on the Fock backend.  *)
(* The state of the two modes is held as the polynomial in the creation    *)
(* operators a (mode 0) and b (mode 1) that makes it from the vacuum:      *)
(* entry k * cutoff_dim + l + 1 of the table is the coefficient of         *)
(* a^k b^l.  The amplitude of |k, l> is the coefficient times              *)
(* sqrt(k! l!) and a positive factor common to all entries of one total,   *)
(* so an outcome has nonzero probability exactly if its coefficient is     *)
(* nonzero.                                                                *)
(***************************************************************************)
cutoff_dim == 8

Photons == 0..(cutoff_dim - 1)

\* The photon numbers n and m of the two Fock states: the notebook's 5 and
\* 1, and every other pair that stays below the cutoff.
FockInputs == {nm \in Photons \X Photons : nm[1] + nm[2] < cutoff_dim}

At(t, k, l) == IF k \in Photons /\ l \in Photons THEN t[k * cutoff_dim + l + 1] ELSE 0

FockVacuum == Tup([x \in 1..(cutoff_dim * cutoff_dim) |-> IF x = 1 THEN 1 ELSE 0])

\* ops.Fock(n) | q[mode]: the mode, in its vacuum, is given n photons.
Fock(t, n, mode) ==
  Tup([x \in 1..(cutoff_dim * cutoff_dim) |->
         IF mode = 0
         THEN (IF (x - 1) \div cutoff_dim = n THEN At(t, 0, (x - 1) % cutoff_dim) ELSE 0)
         ELSE (IF (x - 1) % cutoff_dim = n THEN At(t, (x - 1) \div cutoff_dim, 0) ELSE 0)])

\* A mutant of the product below: the linear form has a constant term, as
\* for an operation that does not keep the number of photons.
MixStepLossy(t, x, y) ==
  Tup([z \in 1..(cutoff_dim * cutoff_dim) |->
         x * At(t, ((z - 1) \div cutoff_dim) - 1, (z - 1) % cutoff_dim)
           + y * At(t, (z - 1) \div cutoff_dim, ((z - 1) % cutoff_dim) - 1)
           + At(t, (z - 1) \div cutoff_dim, (z - 1) % cutoff_dim)])

\* The product of the polynomial t with the linear form x a + y b, cut at
\* the cutoff.
MixStep(t, x, y) ==
  Tup([z \in 1..(cutoff_dim * cutoff_dim) |->
         x * At(t, ((z - 1) \div cutoff_dim) - 1, (z - 1) % cutoff_dim)
           + y * At(t, (z - 1) \div cutoff_dim, ((z - 1) % cutoff_dim) - 1)])

\* BSgate() is the 50:50 beamsplitter, BSgate(pi/4, 0): up to the common
\* factor it sends a to a + b and b to -a + b, so a^k b^l to
\* (a + b)^k (-a + b)^l.
RECURSIVE Mixed(_, _)
Mixed(k, l) ==
  IF k > 0 THEN MixStep(Mixed(k - 1, l), 1, 1)
  ELSE IF l > 0 THEN MixStep(Mixed(0, l - 1), -1, 1)
  ELSE FockVacuum

RECURSIVE BSTerms(_, _)
BSTerms(t, S) ==
  IF S = {} THEN Tup([x \in 1..(cutoff_dim * cutoff_dim) |-> 0])
  ELSE Only({Tup([x \in 1..(cutoff_dim * cutoff_dim) |-> At(t, kl[1], kl[2]) * m[x] + r[x]]) :
               kl \in {CHOOSE c \in S : TRUE},
               m \in {Mixed((CHOOSE c \in S : TRUE)[1], (CHOOSE c \in S : TRUE)[2])},
               r \in {BSTerms(t, S \ {CHOOSE c \in S : TRUE})}})

\* ops.BSgate() | q: every term of the state is sent through the
\* beamsplitter.
BSgate(t) == BSTerms(t, {kl \in Photons \X Photons : At(t, kl[1], kl[2]) # 0})

\* The program of the notebook, for n and m photons.
prog(p) ==
  <<Op("Fock", p[1], <<0>>), Op("Fock", p[2], <<1>>), Op("BSgate", 0, <<0, 1>>),
    Op("MeasureFock", 0, <<0, 1>>)>>

\* The outcomes ops.MeasureFock() | q can give: the photon numbers of the
\* two modes in a term of the state.
FockOutcomes(t) == {kl \in Photons \X Photons : At(t, kl[1], kl[2]) # 0}

(***************************************************************************)
(* part_000: a program of 8 modes is submitted to the remote device with   *)
(* run_async and its result is fetched when the job has finished.  The     *)
(* platform moves the job from open to queued, measures the shots and      *)
(* ends it as complete, or ends it as failed; the job object caches the    *)
(* status it has read until clear() is called.                             *)
(***************************************************************************)
modes == 8

\* shots=3 of run_async; the model also submits jobs of fewer shots.
job_shots == 3

\* Outcome vectors of the device, from the printed samples.
Outcomes ==
  { <<0, 0, 0, 0, 0, 0, 0, 0>>, <<1, 0, 0, 0, 0, 0, 0, 0>>, <<0, 1, 0, 0, 0, 1, 0, 0>> }

JobStatuses == {"queued", "open", "complete", "failed", "cancelled"}

\* Job.finished: the status is final.
Finished == {"complete", "failed", "cancelled"}

NoJob ==
  [srv |-> "none", cached |-> "none", shown |-> "none", shots |-> 0, measured |-> << >>,
   result |-> << >>]

\* Job.status: the cached status, read from the platform when none is
\* cached.
JobStatus(j) == IF j.cached = "none" THEN j.srv ELSE j.cached

\* A mutant of the test below: wait returns whatever the status is.
WaitReturnsAtOnce(st) == TRUE

\* Job.wait loops, clearing the cache, until the status is final.
WaitReturns(st) == st \in Finished

\* sf.Result(job.result): the samples in the order they were measured.
JobResult(j) == j.measured

(***************************************************************************)
(* The devices.                                                            *)
(***************************************************************************)
DevNotebooks == {"noisy", "stateprep", "jaxrand", "rotcall"}
Notebooks ==
  {"rotation", "gaussian", "jaxgd", "noisy", "noisygrad", "stateprep", "jax", "jaxrand",
   "fock", "rotcall", "xqc", "gaussian0", "photon", "photon0", "preploop"}

\* The wires of the notebook's device.
Wires(n) == IF n \in {"stateprep", "preploop"} THEN nr_qubits ELSE IF n = "rotcall" THEN 1 ELSE 2

\* The state of the device with every wire in |0>.
ZeroFor(n) ==
  IF n \in {"noisy", "noisygrad"} THEN ZeroRho(Wires(n))
  ELSE IF n = "fock" THEN FockVacuum ELSE ZeroState(Wires(n))

\* The operations the QNode call c queues.
Ops(n, p, c) ==
  IF n = "stateprep" THEN circuit_prep(p)
  ELSE IF n = "jaxrand" THEN circuit_jax_ops(HalfPi)
  ELSE IF n = "rotcall" THEN circuit_rot_ops(p)
  ELSE IF c.name = "circuit" THEN circuit_noisy
  ELSE IF c.name = "bitflip_circuit" THEN bitflip_circuit(c.arg)
  ELSE IF c.name = "damping_circuit" THEN damping_circuit(c.arg)
  ELSE depolarizing_circuit(c.arg)

\* The calls of the notebook.
Calls(n) ==
  IF n = "noisy" THEN NoisyCalls
  ELSE IF n = "stateprep" THEN PrepCalls
  ELSE IF n = "jaxrand" THEN RandCalls
  ELSE IF n = "rotcall" THEN RotCalls ELSE {}

\* A device that keeps the state of the previous call.
NoReset(st, zero) == st
\* Device.reset(), run at the start of every QNode call.
Reset(st, zero) == zero

\* Device.apply for one operation.
ApplyGate(n, st, op) ==
  IF n = "noisy"
  THEN CASE op.g = "Hadamard" -> Hadamard(st, op.w[1], Wires(n))
         [] op.g = "CNOT" -> CNOTRho(st, op.w[1], op.w[2], Wires(n))
         [] op.g = "BitFlip" -> BitFlip(st, op.th, op.w[1], Wires(n))
         [] op.g = "AmplitudeDamping" -> AmplitudeDamping(st, op.th, op.w[1], Wires(n))
         [] OTHER -> DepolarizingChannel(st, op.th, op.w[1], Wires(n))
  ELSE CASE op.g = "RX" -> RX(st, op.th, op.w[1], Wires(n))
         [] op.g = "RY" -> RY(st, op.th, op.w[1], Wires(n))
         [] op.g = "RZ" -> RZ(st, op.th, op.w[1], Wires(n))
         [] OTHER -> CNOT(st, op.w[1], op.w[2], Wires(n))

\* Device.expval for the observable the call returns.
Expval(n, st, c) ==
  IF n = "noisy" THEN ExpvalZZ(st, Wires(n))
  ELSE IF n = "stateprep" THEN ExpvalHermitian(st, Paulis[c.arg], 0, Wires(n))
  ELSE ExpvalZ(st, 0, Wires(n))

\* A device whose expval applies the observable to the state it holds.
AfterExpvalInPlace(n, st, c) ==
  IF n = "stateprep" THEN MatrixOnWire(st, Paulis[c.arg], 0, Wires(n)) ELSE st
\* The state the device holds after expval: the state it held before.
AfterExpval(n, st, c) == st

Unset == [set |-> FALSE, val |-> 0]
Value(v) == [set |-> TRUE, val |-> v]
NoValues(n) == IF n \in {"noisy", "jaxrand", "fock"} THEN << >> ELSE <<Unset, Unset, Unset>>

\* The state of the device after the operations ops, applied in order to st.
RECURSIVE RunOps(_, _)
RunOps(st, ops) ==
  IF ops = << >> THEN st
  ELSE Only({RunOps(nxt, Tail(ops)) : nxt \in {ApplyGate("stateprep", st, Head(ops))}})

\* circuit(params, Paulis[l]) for l = 0, 1, 2: the Bloch vector of qubit 0.
output_bloch(p) ==
  Only({Tup([l \in 1..3 |-> ExpvalHermitian(st, Paulis[l], 0, nr_qubits)]) :
          st \in {RunOps(ZeroState(nr_qubits), circuit_prep(p))}})

\* cost_fn(params) as one value.
loss_prep(p) ==
  Only({Abs(b[1] - bloch_v[1]) + Abs(b[2] - bloch_v[2]) + Abs(b[3] - bloch_v[3]) :
          b \in {output_bloch(p)}})

Sign(x) == IF x > 0 THEN 1 ELSE IF x < 0 THEN -1 ELSE 0

\* loss.backward(): the derivative of cost_fn with respect to every
\* parameter, the derivative of |u| being the sign of u and that of an
\* expectation value the half-difference of its values at the angle
\* shifted by +-pi/2.
backward(p) ==
  Only({Tup([k \in 1..Len(p) |->
          Only({  sg[1] * DivInt(up[1] - dn[1], 2)
                + sg[2] * DivInt(up[2] - dn[2], 2)
                + sg[3] * DivInt(up[3] - dn[3], 2) :
                  up \in {output_bloch(Shifted(p, k, HalfPi))},
                  dn \in {output_bloch(Shifted(p, k, -HalfPi))}})]) :
          sg \in {Tup([l \in 1..3 |-> Sign(b[l] - bloch_v[l])]) : b \in {output_bloch(p)}}})

\* opt = torch.optim.Adam([params], lr=0.1); the decay rates and epsilon
\* are those of torch when none are given.
lr == Dec(0, 10000000)
beta1 == Dec(0, 90000000)
beta2 == Dec(0, 99900000)
AdamEps == Scale \div 100000000

steps_prep == 200

\* The loop iterations the model runs.
MaxPrepSteps == 3

\* The optimizer before its first step: no moments, no steps taken.
NoAdam == [m |-> << >>, v |-> << >>, t |-> 0]
NewAdam(p) == [m |-> Tup([k \in 1..Len(p) |-> 0]), v |-> Tup([k \in 1..Len(p) |-> 0]), t |-> 0]

\* 1 + b + ... + b^(t-1), which is (1 - b^t) / (1 - b).
RECURSIVE Geometric(_, _)
Geometric(b, t) == IF t = 0 THEN 0 ELSE Only({Scale + MulVal(b, x) : x \in {Geometric(b, t - 1)}})

\* The square root of x for 0 <= x <= 16.
SqrtWide(x) == 4 * Sqrt(x \div 16)

\* m / d for 0 < d <= 16.
Ratio(m, d) == IF d > Scale THEN DivVal(DivInt(m, 16), d \div 16) ELSE DivVal(m, d)

\* The moments after a step with gradient g.  Both are kept
\* bias-corrected: m is exp_avg / (1 - beta1^t) and v is
\* exp_avg_sq / (1 - beta2^t).
AdamMoments(a, g) ==
  Only({[m |-> Tup([k \in 1..Len(g) |->
                  Ratio(MulVal(MulVal(beta1, s1o), a.m[k]) + g[k], s1)]),
         v |-> Tup([k \in 1..Len(g) |->
                  Ratio(MulVal(MulVal(beta2, s2o), a.v[k]) + MulVal(g[k], g[k]), s2)]),
         t |-> a.t + 1] :
          s1o \in {Geometric(beta1, a.t)}, s1 \in {Geometric(beta1, a.t + 1)},
          s2o \in {Geometric(beta2, a.t)}, s2 \in {Geometric(beta2, a.t + 1)}})

\* opt.step(): params -= lr * m / (sqrt(v) + eps), written into the tensor
\* params itself.
AdamUpdate(p, a) ==
  Tup([k \in 1..Len(p) |-> p[k] - MulVal(lr, Ratio(a.m[k], SqrtWide(a.v[k]) + AdamEps))])

\* best_params = np.zeros((nr_qubits, nr_layers, 3))
ZeroParams == Tup([k \in 1..(nr_qubits * nr_layers * 3) |-> 0])

\* No loss has been evaluated in the state-preparation loop yet.
NoBest == [cost |-> 0, ref |-> "none"]

\* The value of best_params: the array of zeros, or after
\* best_params = params the tensor params itself, whatever it holds now.
BestParams(b, p) == IF b.ref = "params" THEN p ELSE ZeroParams

(***************************************************************************)
(* The optimisation loops.                                                 *)
(***************************************************************************)
OptNotebooks == {"rotation", "gaussian", "gaussian0", "jaxgd", "photon", "photon0"}

PhotonNotebooks == {"photon", "photon0"}

\* The gradient descent cell of the JAX notebook: param = 0.123, then 100
\* times param -= grad_circuit(param), an update with rate 1.
init_params_jax == <<Dec(0, 12300000)>>
steps_jax == 100
stepsize_jax == Scale
cost_jax(p) == circuit_jax(p[1])

\* grad_circuit = jax.grad(circuit): the derivative of circuit at param; for
\* the angle of the one RX gate, the half-difference of circuit at
\* param + pi/2 and param - pi/2.
grad_circuit(p) ==
  Tup([k \in 1..Len(p) |->
         ShiftRule(cost_jax(Shifted(p, k, HalfPi)), cost_jax(Shifted(p, k, -HalfPi)))])

init_params(n) ==
  IF n = "rotation" THEN init_params_rot
  ELSE IF n = "jaxgd" THEN init_params_jax
  ELSE IF n = "photon" THEN init_params_photon
  ELSE IF n = "photon0" THEN init_params_photon0
  ELSE IF n = "gaussian0" THEN init_params_gauss0 ELSE init_params_gauss
steps(n) ==
  IF n = "rotation" THEN steps_rot
  ELSE IF n = "jaxgd" THEN steps_jax
  ELSE IF n \in PhotonNotebooks THEN steps_photon ELSE steps_gauss
stepsize(n) ==
  IF n = "rotation" THEN stepsize_rot
  ELSE IF n = "jaxgd" THEN stepsize_jax
  ELSE IF n \in PhotonNotebooks THEN stepsize_photon ELSE stepsize_gauss
cost(n, p) ==
  IF n = "rotation" THEN cost_rot(p)
  ELSE IF n = "jaxgd" THEN cost_jax(p)
  ELSE IF n \in PhotonNotebooks THEN cost_photon(p) ELSE cost_gauss(p)
grad(n, p) ==
  IF n = "rotation" THEN grad_rot(p)
  ELSE IF n = "jaxgd" THEN grad_circuit(p)
  ELSE IF n \in PhotonNotebooks THEN grad_photon(p) ELSE grad_gauss(p)

\* Mutants of the update: a step up the gradient, and a step that keeps
\* using the gradient at the initial parameters.
StepAscent(n, p) ==
  Only({Tup([k \in 1..Len(p) |-> p[k] + MulVal(stepsize(n), g[k])]) : g \in {grad(n, p)}})
StepStaleGradient(n, p) ==
  Only({Tup([k \in 1..Len(p) |-> p[k] - MulVal(stepsize(n), g[k])]) :
          g \in {grad(n, init_params(n))}})

\* GradientDescentOptimizer.step: params - stepsize * grad(cost)(params).
step(n, p) ==
  Only({Tup([k \in 1..Len(p) |-> p[k] - MulVal(stepsize(n), g[k])]) : g \in {grad(n, p)}})

\* Mutants of the loop test: one iteration too many, no exit at all, and an
\* exit as soon as |cost| is below 1e-6.
LoopContinuesInclusive(k, n) == k <= n
LoopNeverExits(k, n) == TRUE
LoopStopsWhenConverged(k, n) == k < n /\ ~(Abs(cost(nb, params)) < Scale \div 1000000)

\* for i in range(steps): the body runs while the index is below steps.
LoopContinues(k, n) == k < n

\* The progress line: every 5th step in the rotation loop, every step in
\* the Gaussian loop.
Prints(n, k) ==
  IF n = "rotation" \/ n \in PhotonNotebooks THEN (k + 1) % 5 = 0
  ELSE IF n = "jaxgd" THEN FALSE ELSE TRUE

\* No gradient is being evaluated.
NoGrad == [phase |-> "idle", at |-> 0, tape |-> << >>, plus |-> 0, out |-> << >>]

\* A mutant of the operator below: the shift is written into params.
ShiftedInPlace(p, sh) == sh

\* The caller's parameters while the tape holds the shifted parameters sh:
\* the shift is made on the tape's copy, so they are what they were.
CallerParams(p, sh) == p

vars ==
  <<nb, pc, i, params, nupdates, lastCost, dev_state, tape, call, evals, vals,
    lanes, seen, last, diff, rng, job, best, gev, adam>>

optvars == <<i, params, nupdates, lastCost>>
devvars == <<dev_state, tape, call, evals, seen, last, diff>>

\* The parameters the notebook starts from.
InitialParams(n) ==
  IF n \in OptNotebooks THEN {init_params(n)}
  ELSE IF n \in {"stateprep", "preploop"} THEN {params_prep}
  ELSE IF n = "jax" THEN Batches
  ELSE IF n = "fock" THEN FockInputs
  ELSE IF n = "rotcall" THEN RotInputs
  ELSE IF n = "xqc" THEN {<<sh>> : sh \in 1..job_shots}
  ELSE {<< >>}

Init ==
  /\ nb \in Notebooks
  /\ pc = IF nb \in DevNotebooks THEN "run" ELSE "init"
  /\ i = 0
  /\ params \in InitialParams(nb)
  /\ nupdates = 0
  /\ lastCost = IF nb \in OptNotebooks THEN cost(nb, init_params(nb)) ELSE 0
  /\ dev_state = ZeroFor(nb)
  /\ tape = << >>
  /\ call = NoCall
  /\ evals = 0
  /\ vals = NoValues(nb)
  /\ lanes = << >>
  /\ seen = [c \in Calls(nb) |->
               [val |-> IF nb = "jaxrand" THEN << >> ELSE 0, n |-> 0, same |-> TRUE]]
  /\ last = NoCall
  /\ diff = NoDiff
  /\ rng \in (IF nb = "jaxrand" THEN Generators ELSE {0})
  /\ job = NoJob
  /\ best = NoBest
  /\ gev = NoGrad
  /\ adam = NoAdam

\* opt = qml.GradientDescentOptimizer(...); steps = ...; params = init_params
OptStart ==
  /\ nb \in OptNotebooks
  /\ pc = "init"
  /\ pc' = "loop"
  /\ i' = 0
  /\ params' = init_params(nb)
  /\ UNCHANGED <<nb, rng, job, best, gev, adam, nupdates, lastCost, vals, lanes>>
  /\ UNCHANGED devvars

\* One iteration of the loop body.
LoopStep ==
  /\ pc = "loop"
  /\ LoopContinues(i, steps(nb))
  /\ \E new \in {step(nb, params)} :
       /\ params' = new
       /\ lastCost' = IF Prints(nb, i) THEN cost(nb, new) ELSE lastCost
  /\ nupdates' = nupdates + 1
  /\ i' = i + 1
  /\ UNCHANGED <<nb, rng, job, best, gev, adam, pc, vals, lanes>>
  /\ UNCHANGED devvars

\* range(steps) is exhausted: the final print.
LoopExit ==
  /\ pc = "loop"
  /\ ~LoopContinues(i, steps(nb))
  /\ pc' = "done"
  /\ UNCHANGED <<nb, rng, job, best, gev, adam, vals, lanes>>
  /\ UNCHANGED optvars
  /\ UNCHANGED devvars

\* The calls the notebook can make next: any circuit of the noisy notebook
\* with any p of ps, the circuit of cost_fn's next observable.
NextCalls ==
  IF nb = "noisy" THEN (IF evals < MaxEvals THEN NoisyCalls ELSE {})
  ELSE IF nb = "stateprep" /\ evals < 3 * cost_fn_calls
       THEN {[name |-> "circuit", arg |-> (evals % 3) + 1]}
  ELSE IF nb = "jaxrand" /\ evals < Len(RandKeys)
       THEN {[name |-> "circuit", arg |-> RandKeys[evals + 1]]}
  ELSE IF nb = "rotcall" /\ evals < 1 THEN RotCalls
  ELSE {}

\* A QNode is called: the device is reset and the operations are queued.
QNodeCall(c) ==
  /\ pc = "run"
  /\ call = NoCall
  /\ c \in NextCalls
  /\ call' = c
  /\ tape' = Ops(nb, params, c)
  /\ dev_state' = Reset(dev_state, ZeroFor(nb))
  /\ vals' = IF (nb = "stateprep" /\ evals % 3 = 0) \/ nb = "jaxrand"
             THEN NoValues(nb) ELSE vals
  /\ UNCHANGED <<nb, rng, job, best, gev, adam, pc, evals, lanes, seen, last, diff>>
  /\ UNCHANGED optvars

\* The device applies the next queued operation.
ApplyNext ==
  /\ call # NoCall
  /\ tape # << >>
  /\ dev_state' = ApplyGate(nb, dev_state, Head(tape))
  /\ tape' = Tail(tape)
  /\ UNCHANGED <<nb, rng, job, best, gev, adam, pc, call, evals, vals, lanes, seen, last, diff>>
  /\ UNCHANGED optvars

\* The device computes the expectation value and the call returns it; the
\* third value of a cost_fn call completes the cost.
Measure ==
  /\ nb # "jaxrand"
  /\ call # NoCall
  /\ tape = << >>
  /\ \E r \in {Expval(nb, dev_state, call)} :
       /\ seen' = [seen EXCEPT ![call] =
                     [val |-> IF @.n = 0 THEN r ELSE @.val,
                      n |-> @.n + 1,
                      same |-> @.same /\ (@.n = 0 \/ @.val = r)]]
       /\ vals' = IF nb = "stateprep" THEN [vals EXCEPT ![call.arg] = Value(r)] ELSE vals
  /\ dev_state' = AfterExpval(nb, dev_state, call)
  /\ last' = call
  /\ call' = NoCall
  /\ evals' = evals + 1
  /\ lastCost' = IF nb = "stateprep" /\ call.arg = 3 THEN cost_fn(vals') ELSE lastCost
  /\ pc' = IF nb = "stateprep" /\ evals' = 3 * cost_fn_calls THEN "done" ELSE pc
  /\ UNCHANGED <<nb, rng, job, best, gev, adam, tape, lanes, i, params, nupdates, diff>>

\* The device draws the next of the shots samples of PauliZ(0).
SampleShot ==
  /\ nb = "jaxrand"
  /\ call # NoCall
  /\ tape = << >>
  /\ Len(vals) < shots
  /\ vals' = Append(vals,
        <<SampleZ(dev_state, 0, Wires(nb), Draw(rng, DeviceKey(call.arg, evals), Len(vals) + 1))>>)
  /\ UNCHANGED <<nb, rng, job, best, gev, adam, pc, dev_state, tape, call, evals, lanes, seen, last, diff>>
  /\ UNCHANGED optvars

\* circuit(key, param) returns the array of samples.
SampleReturn ==
  /\ nb = "jaxrand"
  /\ call # NoCall
  /\ tape = << >>
  /\ Len(vals) = shots
  /\ seen' = [seen EXCEPT ![call] =
                [val |-> IF @.n = 0 THEN vals ELSE @.val,
                 n |-> @.n + 1,
                 same |-> @.same /\ (@.n = 0 \/ @.val = vals)]]
  /\ last' = call
  /\ call' = NoCall
  /\ evals' = evals + 1
  /\ pc' = IF evals' = Len(RandKeys) THEN "done" ELSE pc
  /\ UNCHANGED <<nb, rng, job, best, gev, adam, dev_state, tape, vals, lanes, diff>>
  /\ UNCHANGED optvars

\* The gradient of a noisy circuit with respect to the parameter of its
\* channel is taken: the rule for the channel is chosen.
Differentiate(ch, pr) ==
  /\ nb = "noisygrad"
  /\ ch \in Channels
  /\ diff' = [channel |-> ch, method |-> GradMethod(ch, pr)]
  /\ UNCHANGED <<nb, rng, job, best, gev, adam, pc, dev_state, tape, call, evals, vals, lanes, seen, last>>
  /\ UNCHANGED optvars

\* vcircuit(batch_params): one evaluation of circuit per entry of the array.
VmapCall ==
  /\ nb = "jax"
  /\ pc = "init"
  /\ pc' = "run"
  /\ lanes' = [j \in 1..Len(params) |->
                 [st |-> ZeroState(Wires(nb)), tape |-> circuit_jax_ops(params[j])]]
  /\ vals' = [j \in 1..Len(params) |-> Unset]
  /\ UNCHANGED <<nb, rng, job, best, gev, adam>>
  /\ UNCHANGED optvars
  /\ UNCHANGED devvars

\* The evaluation of item j applies its next operation.
LaneApply(j) ==
  /\ nb = "jax"
  /\ pc = "run"
  /\ j \in DOMAIN lanes
  /\ lanes[j].tape # << >>
  /\ lanes' = [lanes EXCEPT ![j] =
                 [st |-> ApplyGate(nb, @.st, Head(@.tape)), tape |-> Tail(@.tape)]]
  /\ UNCHANGED <<nb, rng, job, best, gev, adam, pc, vals>>
  /\ UNCHANGED optvars
  /\ UNCHANGED devvars

\* The evaluation of item j computes its expectation value.
LaneMeasure(j) ==
  /\ nb = "jax"
  /\ pc = "run"
  /\ j \in DOMAIN lanes
  /\ lanes[j].tape = << >>
  /\ ~vals[ResultSlot(j, Len(lanes))].set
  /\ vals' = [vals EXCEPT ![ResultSlot(j, Len(lanes))] = Value(Expval(nb, lanes[j].st, NoCall))]
  /\ UNCHANGED <<nb, rng, job, best, gev, adam, pc, lanes>>
  /\ UNCHANGED optvars
  /\ UNCHANGED devvars

\* vcircuit returns the array of results.
VmapReturn ==
  /\ nb = "jax"
  /\ pc = "run"
  /\ \A j \in DOMAIN vals : vals[j].set
  /\ pc' = "done"
  /\ UNCHANGED <<nb, rng, job, best, gev, adam, vals, lanes>>
  /\ UNCHANGED optvars
  /\ UNCHANGED devvars

\* eng.run(prog): the engine starts from the vacuum and takes the commands
\* of the program in order.
EngRun ==
  /\ nb = "fock"
  /\ pc = "init"
  /\ pc' = "run"
  /\ tape' = prog(params)
  /\ dev_state' = FockVacuum
  /\ UNCHANGED <<nb, rng, job, best, gev, adam, call, evals, vals, lanes, seen, last, diff>>
  /\ UNCHANGED optvars

\* The engine applies the next state preparation or gate.
FockApply ==
  /\ nb = "fock"
  /\ pc = "run"
  /\ tape # << >>
  /\ Head(tape).g # "MeasureFock"
  /\ dev_state' = IF Head(tape).g = "Fock"
                  THEN Fock(dev_state, Head(tape).th, Head(tape).w[1])
                  ELSE BSgate(dev_state)
  /\ tape' = Tail(tape)
  /\ UNCHANGED <<nb, rng, job, best, gev, adam, pc, call, evals, vals, lanes, seen, last, diff>>
  /\ UNCHANGED optvars

\* The engine measures the photon number of both modes: result.samples
\* holds the one sample.
MeasureFock ==
  /\ nb = "fock"
  /\ pc = "run"
  /\ tape # << >>
  /\ Head(tape).g = "MeasureFock"
  /\ \E kl \in FockOutcomes(dev_state) : vals' = <<kl>>
  /\ tape' = Tail(tape)
  /\ pc' = "done"
  /\ UNCHANGED <<nb, rng, job, best, gev, adam, dev_state, call, evals, lanes, seen, last, diff>>
  /\ UNCHANGED optvars

\* job = eng.run_async(prog, shots=s): the job is created on the platform.
RunAsync ==
  /\ nb = "xqc"
  /\ pc = "init"
  /\ pc' = "submitted"
  /\ job' = [NoJob EXCEPT !.srv = "open", !.shots = params[1]]
  /\ UNCHANGED <<nb, rng, best, gev, adam, vals, lanes>>
  /\ UNCHANGED optvars
  /\ UNCHANGED devvars

\* The platform queues the open job.
PlatformQueues ==
  /\ job.srv = "open"
  /\ job' = [job EXCEPT !.srv = "queued"]
  /\ UNCHANGED <<nb, rng, best, gev, adam, pc, vals, lanes>>
  /\ UNCHANGED optvars
  /\ UNCHANGED devvars

\* The device measures the next shot of the queued job.
DeviceShot(o) ==
  /\ job.srv = "queued"
  /\ Len(job.measured) < job.shots
  /\ o \in Outcomes
  /\ job' = [job EXCEPT !.measured = Append(@, o)]
  /\ UNCHANGED <<nb, rng, best, gev, adam, pc, vals, lanes>>
  /\ UNCHANGED optvars
  /\ UNCHANGED devvars

\* All shots are measured: the job is complete.
PlatformCompletes ==
  /\ job.srv = "queued"
  /\ Len(job.measured) = job.shots
  /\ job' = [job EXCEPT !.srv = "complete"]
  /\ UNCHANGED <<nb, rng, best, gev, adam, pc, vals, lanes>>
  /\ UNCHANGED optvars
  /\ UNCHANGED devvars

\* The platform gives the job up.
PlatformFails ==
  /\ job.srv \in {"open", "queued"}
  /\ job' = [job EXCEPT !.srv = "failed"]
  /\ UNCHANGED <<nb, rng, best, gev, adam, pc, vals, lanes>>
  /\ UNCHANGED optvars
  /\ UNCHANGED devvars

\* print(job.status)
PrintStatus ==
  /\ nb = "xqc"
  /\ pc \in {"submitted", "waited"}
  /\ pc' = IF pc = "submitted" THEN "printed" ELSE "shown"
  /\ job' = [job EXCEPT !.cached = JobStatus(job), !.shown = JobStatus(job)]
  /\ UNCHANGED <<nb, rng, best, gev, adam, vals, lanes>>
  /\ UNCHANGED optvars
  /\ UNCHANGED devvars

\* job.clear(); job.status
ClearStatus ==
  /\ nb = "xqc"
  /\ pc = "printed"
  /\ pc' = "cleared"
  /\ job' = [job EXCEPT !.cached = job.srv, !.shown = job.srv]
  /\ UNCHANGED <<nb, rng, best, gev, adam, vals, lanes>>
  /\ UNCHANGED optvars
  /\ UNCHANGED devvars

\* job.wait() returns.
JobWait ==
  /\ nb = "xqc"
  /\ pc = "cleared"
  /\ WaitReturns(job.srv)
  /\ pc' = "waited"
  /\ job' = [job EXCEPT !.cached = job.srv]
  /\ UNCHANGED <<nb, rng, best, gev, adam, vals, lanes>>
  /\ UNCHANGED optvars
  /\ UNCHANGED devvars

\* result = sf.Result(job.result), for a job that is complete.
FetchResult ==
  /\ nb = "xqc"
  /\ pc = "shown"
  /\ JobStatus(job) = "complete"
  /\ pc' = "done"
  /\ job' = [job EXCEPT !.result = JobResult(job)]
  /\ UNCHANGED <<nb, rng, best, gev, adam, vals, lanes>>
  /\ UNCHANGED optvars
  /\ UNCHANGED devvars

\* The loop runs range(steps), cut at MaxPrepSteps iterations.
PrepSteps == IF steps_prep < MaxPrepSteps THEN steps_prep ELSE MaxPrepSteps

\* if n % 10 == 9 or n == steps - 1: print
PrintsPrep(n) == n % 10 = 9 \/ n = steps_prep - 1

\* opt = torch.optim.Adam(...); best_cost = cost_fn(params);
\* best_params = np.zeros(...); print of the cost after 0 steps.
PrepStart ==
  /\ nb = "preploop"
  /\ pc = "init"
  /\ pc' = "train"
  /\ adam' = NewAdam(params)
  /\ \E c \in {loss_prep(params)} :
       /\ best' = [cost |-> c, ref |-> "zeros"]
       /\ lastCost' = c
  /\ i' = 0
  /\ UNCHANGED <<nb, rng, job, gev, params, nupdates, vals, lanes>>
  /\ UNCHANGED devvars

\* One iteration: loss = cost_fn(params); loss.backward(); opt.step(), which
\* changes the tensor params in place; then the comparison with best_cost.
PrepStep ==
  /\ nb = "preploop"
  /\ pc = "train"
  /\ LoopContinues(i, PrepSteps)
  /\ \E loss \in {loss_prep(params)}, a \in {AdamMoments(adam, backward(params))} :
       /\ adam' = a
       /\ params' = AdamUpdate(params, a)
       /\ best' = IF loss < best.cost THEN [cost |-> loss, ref |-> "params"] ELSE best
       /\ lastCost' = IF PrintsPrep(i) THEN loss ELSE lastCost
  /\ i' = i + 1
  /\ UNCHANGED <<nb, rng, job, gev, pc, nupdates, vals, lanes>>
  /\ UNCHANGED devvars

\* output_bloch_v[l] = circuit(best_params, Paulis[l]) for l in range(3).
PrepOutput ==
  /\ nb = "preploop"
  /\ pc = "train"
  /\ ~LoopContinues(i, PrepSteps)
  /\ pc' = "done"
  /\ vals' = Only({Tup([l \in 1..3 |-> Value(b[l])]) :
                     b \in {output_bloch(BestParams(best, params))}})
  /\ UNCHANGED <<nb, rng, job, best, gev, adam, lanes>>
  /\ UNCHANGED optvars
  /\ UNCHANGED devvars

\* dcircuit(params), dcircuit = qml.grad(circuit, argnum=0): the evaluation
\* starts with component 0 shifted up on the tape.
GradCall ==
  /\ nb = "rotcall"
  /\ pc = "run"
  /\ call = NoCall
  /\ evals = 1
  /\ gev = NoGrad
  /\ \E sh \in {Shifted(params, 1, HalfPi)} :
       /\ gev' = [phase |-> "plus", at |-> 1, tape |-> sh, plus |-> 0, out |-> << >>]
       /\ params' = CallerParams(params, sh)
  /\ UNCHANGED <<nb, rng, job, best, adam, pc, i, nupdates, lastCost, vals, lanes>>
  /\ UNCHANGED devvars

\* The circuit is evaluated with the component shifted up; the tape then
\* holds the component shifted down.
GradEvalPlus ==
  /\ nb = "rotcall"
  /\ gev.phase = "plus"
  /\ \E sh \in {Shifted(params, gev.at, -HalfPi)} :
       /\ gev' = [gev EXCEPT !.phase = "minus", !.plus = circuit_rot(gev.tape), !.tape = sh]
       /\ params' = CallerParams(params, sh)
  /\ UNCHANGED <<nb, rng, job, best, adam, pc, i, nupdates, lastCost, vals, lanes>>
  /\ UNCHANGED devvars

\* The circuit is evaluated with the component shifted down, which gives
\* the component of the gradient; the next component is shifted, or the
\* gradient is returned.
GradEvalMinus ==
  /\ nb = "rotcall"
  /\ gev.phase = "minus"
  /\ \E g \in {ShiftRule(gev.plus, circuit_rot(gev.tape))} :
       IF gev.at < Len(params)
       THEN \E sh \in {Shifted(params, gev.at + 1, HalfPi)} :
              /\ gev' = [phase |-> "plus", at |-> gev.at + 1, tape |-> sh, plus |-> 0,
                         out |-> Append(gev.out, g)]
              /\ params' = CallerParams(params, sh)
              /\ pc' = pc
       ELSE /\ gev' = [phase |-> "done", at |-> gev.at, tape |-> << >>, plus |-> 0,
                       out |-> Append(gev.out, g)]
            /\ params' = params
            /\ pc' = "done"
  /\ UNCHANGED <<nb, rng, job, best, adam, i, nupdates, lastCost, vals, lanes>>
  /\ UNCHANGED devvars

\* The statements of an optimisation cell.
NextOpt == OptStart \/ LoopStep \/ LoopExit

Next ==
  \/ OptStart
  \/ LoopStep
  \/ LoopExit
  \/ \E c \in NoisyCalls \cup PrepCalls \cup RandCalls \cup RotCalls : QNodeCall(c)
  \/ ApplyNext
  \/ Measure
  \/ SampleShot
  \/ SampleReturn
  \/ \E ch \in Channels, pr \in ps \cup gammas : Differentiate(ch, pr)
  \/ VmapCall
  \/ \E j \in 1..Len(batch_params) : LaneApply(j)
  \/ \E j \in 1..Len(batch_params) : LaneMeasure(j)
  \/ VmapReturn
  \/ EngRun
  \/ FockApply
  \/ MeasureFock
  \/ RunAsync
  \/ PlatformQueues
  \/ \E o \in Outcomes : DeviceShot(o)
  \/ PlatformCompletes
  \/ PlatformFails
  \/ PrintStatus
  \/ ClearStatus
  \/ JobWait
  \/ FetchResult
  \/ PrepStart
  \/ PrepStep
  \/ PrepOutput
  \/ GradCall
  \/ GradEvalPlus
  \/ GradEvalMinus

Spec == Init /\ [][Next]_vars

\* The same runs, with the interpreter always executing the next statement
\* of an optimisation cell.
FairSpec == Spec /\ WF_vars(NextOpt)

(***************************************************************************)
(* The optimizer's status, read off the position in the loop: the loop has *)
(* no exit on convergence, so no state of it is CONVERGED.                 *)
(***************************************************************************)
Status ==
  IF pc = "init" THEN "INITIALIZED"
  ELSE IF pc = "loop" /\ i < steps(nb) THEN "STEPPING"
  ELSE "MAX_STEPS_REACHED"

Terminal == {"CONVERGED", "MAX_STEPS_REACHED"}

StatusArrows ==
  { <<"INITIALIZED", "STEPPING">>, <<"STEPPING", "STEPPING">>,
    <<"STEPPING", "CONVERGED">>, <<"STEPPING", "MAX_STEPS_REACHED">> }

\* The default tolerance of the termination policy, 1e-6.
Tolerance == Scale \div 1000000

Converged(n, p) == Abs(cost(n, p)) < Tolerance

\* C1: the status starts at INITIALIZED, changes only along INITIALIZED ->
\* STEPPING, STEPPING -> STEPPING, STEPPING -> CONVERGED or STEPPING ->
\* MAX_STEPS_REACHED, and once it is CONVERGED or MAX_STEPS_REACHED neither
\* the status nor the parameters change and no further update is made.
StatusStep ==
  /\ (Status' # Status => <<Status, Status'>> \in StatusArrows)
  /\ (Status \in Terminal =>
         Status' = Status /\ nupdates' = nupdates /\ params' = params)

C1_StatusMachine ==
  /\ (nb \in OptNotebooks => Status = "INITIALIZED")
  /\ [][(nb \in OptNotebooks) => StatusStep]_vars

C1_Witness ==
  nb \in OptNotebooks /\ pc = "done" /\ Status = "MAX_STEPS_REACHED" /\ nupdates = steps(nb)

\* C2: every run of a loop with a finite number of steps ends, and it makes
\* at most that number of parameter updates.
C2_Terminates ==
  /\ (nb \in OptNotebooks => <>(pc = "done"))
  /\ [](nb \in OptNotebooks => nupdates <= steps(nb))

C2_Witness == nb = "rotation" /\ pc = "done" /\ nupdates = steps_rot /\ i = steps_rot

\* C3 as claimed: the run stops early exactly when |cost(params)| < tolerance:
\* no update starts from parameters whose cost is below the tolerance, the
\* status becomes CONVERGED only with such a cost, and MAX_STEPS_REACHED only
\* after exactly steps updates.
StopsAtToleranceStep ==
  /\ (nupdates' # nupdates => ~Converged(nb, params))
  /\ (Status' = "CONVERGED" => Converged(nb, params'))
  /\ (Status' = "MAX_STEPS_REACHED" /\ Status # "MAX_STEPS_REACHED" =>
         nupdates' = steps(nb))

C3_StopsAtTolerance == [][(nb \in OptNotebooks) => StopsAtToleranceStep]_vars

\* C3 as amended: the loop never stops early.  A run ends only when the step
\* budget is used up, after exactly steps updates, also when the cost has
\* dropped below the tolerance on the way.
C3_RunsAllSteps ==
  nb \in OptNotebooks /\ pc = "done" => nupdates = steps(nb) /\ i = steps(nb)

C3_Witness ==
  nb = "gaussian" /\ pc = "done" /\ nupdates = steps_gauss /\ Converged(nb, params)

\* C6: a batched evaluation returns one result per input, and result j is
\* the value of evaluating input j alone, in whatever order the evaluations
\* of the items are interleaved.
C6_BatchInOrder ==
  nb = "jax" /\ pc = "done" =>
    /\ Len(vals) = Len(params)
    /\ \A j \in 1..Len(params) : vals[j].set /\ vals[j].val = circuit_jax(params[j])

C6_Witness ==
  /\ nb = "jax"
  /\ pc = "done"
  /\ params = batch_params
  /\ vals[1].val # vals[2].val
  /\ vals[2].val # vals[3].val
  /\ vals[1].val # vals[3].val

\* C8: every return of the same circuit with the same parameters gives the
\* same expectation value, whatever was evaluated before or in between and
\* whatever runs next to it in a batch, and every evaluation starts from the
\* all-zero state.
C8_Idempotent ==
  /\ \A c \in DOMAIN seen : seen[c].same
  /\ (call # NoCall /\ tape = Ops(nb, params, call) => dev_state = ZeroFor(nb))
  /\ \A j \in DOMAIN lanes : Len(lanes[j].tape) = 2 => lanes[j].st = ZeroFor(nb)
  /\ (nb = "jax" /\ pc = "done" =>
        \A j, k \in DOMAIN vals : params[j] = params[k] => vals[j].val = vals[k].val)

C8_Witness ==
  /\ nb = "noisy"
  /\ evals = 3
  /\ call = NoCall
  /\ last.name = "bitflip_circuit"
  /\ seen[last].n = 2
  /\ \E c \in NoisyCalls : c.name = "depolarizing_circuit" /\ seen[c].n = 1

\* C9: computing an expectation value leaves the state of the device as it
\* was, and the three values of a cost_fn call are the expectation values of
\* the three observables in one and the same final state, the one the device
\* still holds.
ExpvalKeepsState ==
  call # NoCall /\ call' = NoCall => dev_state' = dev_state

ValuesOfHeldState ==
  nb = "stateprep" /\ call = NoCall =>
    \A k \in DOMAIN vals :
      vals[k].set => vals[k].val = ExpvalHermitian(dev_state, Paulis[k], 0, Wires(nb))

GradientUpdate(n, p) ==
  Only({Tup([k \in 1..Len(q) |-> q[k] - MulVal(stepsize(n), g[k])]) :
          g \in {grad(n, p)}, q \in {p}})

Iterated(n, k) ==
  LET it[j \in 0..k] == IF j = 0 THEN init_params(n) ELSE GradientUpdate(n, it[j - 1])
  IN  it[k]

\* The largest k for which the k-fold iteration is recomputed from the
\* initial parameters; for larger k it follows step by step.
MaxIterated == 12

StepIsUpdate ==
  /\ nupdates' # nupdates =>
       /\ nupdates' = nupdates + 1
       /\ Len(params') = Len(params)
       /\ \A k \in 1..Len(params) :
            params'[k] = params[k] - MulVal(stepsize(nb), grad(nb, params)[k])
  /\ (nb \in OptNotebooks /\ params' # params => nupdates' = nupdates + 1)

ParamsAreIterated ==
  nb \in OptNotebooks =>
    /\ nupdates = 0 => params = init_params(nb)
    /\ pc # "init" /\ nupdates <= MaxIterated => params = Iterated(nb, nupdates)

C13_StepUpdate == []ParamsAreIterated /\ [][StepIsUpdate]_vars

C13_Witness ==
  /\ nb = "jaxgd"
  /\ pc = "done"
  /\ nupdates = steps_jax
  /\ params # init_params_jax
  /\ Abs(params[1] - Pi) < 10

\* p with component k moved by d and every other component as it is.
OnlyComponent(p, k, d) == [j \in 1..Len(p) |-> IF j = k THEN p[j] + d ELSE p[j]]

\* The shift of the gate parameter k of the notebook's circuit: 0.1 for the
\* amplitude of the Displacement, pi/2 for every angle.
ShiftOf(n, k) == IF n = "gaussian" /\ k = 1 THEN DispShift ELSE HalfPi

ShiftNotebooks == {"rotation", "gaussian"}

\* How far two gradient components may differ by rounding alone.
GradTol == Scale \div 1000000

\* C14 as claimed: component k of the gradient of the cost is the difference
\* of two cost evaluations, at the parameters with component k alone moved up
\* and down by the shift, divided by 2 sin(shift).
CostTwoPoint(p, k, s) ==
  cost(nb, OnlyComponent(p, k, s)) - cost(nb, OnlyComponent(p, k, -s))

CircuitAt(p) == IF nb = "rotation" THEN circuit_rot(p) ELSE mean_photon_gaussian(p[1], p[2], p[3])

CircuitTwoPoint(p, k, s) ==
  CircuitAt(OnlyComponent(p, k, s)) - CircuitAt(OnlyComponent(p, k, -s))

CircuitGradient(p, k) ==
  IF ShiftOf(nb, k) = HalfPi
  THEN DivInt(CircuitTwoPoint(p, k, HalfPi), 2)
  ELSE DivVal(CircuitTwoPoint(p, k, DispShift), 2 * DispShift)

\* The derivative of the cost with respect to the circuit's value: 1 for
\* cost = circuit, 2 (f - 1) for cost = (f - 1)^2.
OuterDerivative(p) == IF nb = "rotation" THEN Scale ELSE 2 * (CircuitAt(p) - Scale)

Returned == {seen[c].val : c \in {d \in DOMAIN seen : seen[d].n > 0}}

\* C16 as claimed: a call returns exactly shots outcome vectors, each with
\* one 0/1 entry per qubit, and calls with the same key return the same
\* sequence.
C16_BitPerQubit ==
  nb = "jaxrand" =>
    /\ \A c \in DOMAIN seen : seen[c].same
    /\ \A r \in Returned :
         /\ Len(r) = shots
         /\ \A j \in 1..Len(r) :
              Len(r[j]) = Wires(nb) /\ \A q \in 1..Len(r[j]) : r[j][q] \in {0, 1}

\* C16 as amended: a call returns exactly shots outcomes, each the single
\* eigenvalue 1 or -1 of PauliZ on wire 0, and calls with the same key return
\* the same sequence, whatever was called before.
C16_SeededSamples ==
  nb = "jaxrand" =>
    /\ \A c \in DOMAIN seen : seen[c].same
    /\ \A r \in Returned :
         /\ Len(r) = shots
         /\ \A j \in 1..Len(r) : Len(r[j]) = 1 /\ r[j][1] \in {1, -1}

C16_Witness ==
  /\ nb = "jaxrand"
  /\ pc = "done"
  /\ seen[[name |-> "circuit", arg |-> 0]].n = 2
  /\ seen[[name |-> "circuit", arg |-> 1]].n = 1
  /\ seen[[name |-> "circuit", arg |-> 0]].val # seen[[name |-> "circuit", arg |-> 1]].val
  /\ \E j, k \in 1..shots :
       seen[[name |-> "circuit", arg |-> 0]].val[j] # seen[[name |-> "circuit", arg |-> 0]].val[k]

\* C17: a two-mode program that prepares Fock states of n and m photons and
\* applies only a beamsplitter before the Fock measurement of both modes
\* returns one sample with an entry per mode, and the entries sum to n + m.
C17_PhotonsConserved ==
  nb = "fock" /\ pc = "done" =>
    /\ Len(vals) = 1
    /\ \A j \in 1..Len(vals) :
         Len(vals[j]) = 2 /\ vals[j][1] + vals[j][2] = params[1] + params[2]

C17_Witness ==
  nb = "fock" /\ pc = "done" /\ params = <<5, 1>> /\ vals = <<(<<1, 5>>)>>

\* The inverse of a gate of the notebooks: the rotation by the opposite
\* angle about the same axis; CNOT is its own inverse.
Inverse(op) == IF op.g = "CNOT" THEN op ELSE [op EXCEPT !.th = -@]

\* How far an amplitude may be off by the rounding of the products of two
\* gate applications: 4e-8.
RoundTol == Scale \div 25000000

Close(s, t) ==
  /\ Len(s) = Len(t)
  /\ \A k \in 1..Len(s) :
       Abs(s[k].re - t[k].re) <= RoundTol /\ Abs(s[k].im - t[k].im) <= RoundTol

\* C18: whenever a device applies a gate to the state it holds, applying the
\* inverse of the gate to the same wires of the new state gives back the
\* state held before, up to rounding.
GateRoundTrip ==
  /\ (nb \in {"stateprep", "jaxrand"} /\ call # NoCall /\ tape # << >> /\ tape' = Tail(tape) =>
        /\ dev_state' = ApplyGate(nb, dev_state, Head(tape))
        /\ Close(ApplyGate(nb, dev_state', Inverse(Head(tape))), dev_state))
  /\ \A j \in DOMAIN lanes :
       lanes'[j] # lanes[j] =>
         /\ lanes'[j].st = ApplyGate(nb, lanes[j].st, Head(lanes[j].tape))
         /\ Close(ApplyGate(nb, lanes'[j].st, Inverse(Head(lanes[j].tape))), lanes[j].st)

C18_RoundTrip == [][GateRoundTrip]_vars

\* The device is about to apply a CNOT that moves amplitudes of a state
\* built by rotations, and the round trip through the gate and its inverse
\* gives the state back.
C18_Witness ==
  /\ nb = "stateprep"
  /\ call # NoCall
  /\ tape # << >>
  /\ Head(tape).g = "CNOT"
  /\ ~Close(ApplyGate(nb, dev_state, Head(tape)), dev_state)
  /\ Close(ApplyGate(nb, ApplyGate(nb, dev_state, Head(tape)), Inverse(Head(tape))), dev_state)

\* The squared norm of a state vector.
Norm2(st) ==
  LET sum[k \in 0..Len(st)] == IF k = 0 THEN 0 ELSE CNorm2(st[k]) + sum[k - 1]
  IN  sum[Len(st)]

\* How far the squared norm may be off by the rounding of the products of
\* a whole circuit.
NormTol == Scale \div 10000000

UnitNorm(st) == Abs(Norm2(st) - Scale) <= NormTol

\* C19: the state vector of a device that applies only unitary gates has
\* norm 1 at the start and after every gate: in the state-preparation and
\* sampling circuits, in every evaluation of a batch, and after the RX and
\* after the RY of the rotation circuit at the parameters of every
\* optimisation step.
C19_UnitNorm ==
  /\ (nb \in {"stateprep", "jaxrand"} => UnitNorm(dev_state))
  /\ (nb = "jax" => \A j \in DOMAIN lanes : UnitNorm(lanes[j].st))
  /\ (nb = "rotation" =>
        /\ UnitNorm(RX(ZeroState(1), params[1], 0, 1))
        /\ UnitNorm(RY(RX(ZeroState(1), params[1], 0, 1), params[2], 0, 1)))

\* The state-preparation circuit has applied all its gates and the state it
\* ends in has an amplitude on every basis state.
C19_Witness ==
  /\ nb = "stateprep"
  /\ call # NoCall
  /\ tape = << >>
  /\ \A k \in 1..Len(dev_state) : CNorm2(dev_state[k]) > 0
  /\ UnitNorm(dev_state)

\* The trace of a density matrix.
Trace(rho) ==
  LET sum[k \in 0..Len(rho)] == IF k = 0 THEN 0 ELSE rho[k][k] + sum[k - 1]
  IN  sum[Len(rho)]

\* seq without its entry j.
Without(seq, j) == SubSeq(seq, 1, j - 1) \o SubSeq(seq, j + 1, Len(seq))

\* The determinant of the rows and columns of rho listed in rows and cols,
\* expanded along the first row.
RECURSIVE Det(_, _, _)
Det(rho, rows, cols) ==
  IF rows = << >> THEN Scale
  ELSE LET term[j \in 0..Len(cols)] ==
             IF j = 0 THEN 0
             ELSE term[j - 1]
                    + (IF j % 2 = 1 THEN 1 ELSE -1)
                        * MulVal(rho[rows[1]][cols[j]], Det(rho, Tail(rows), Without(cols, j)))
       IN  term[Len(cols)]

\* The increasing sequence of the members of a set of indices.
RECURSIVE Sorted(_)
Sorted(S) ==
  IF S = {} THEN << >>
  ELSE LET least == CHOOSE x \in S : \A y \in S : x <= y
       IN  <<least>> \o Sorted(S \ {least})

\* How far the trace and a principal minor may be off by the rounding of
\* the products: 1e-7.
RhoTol == Scale \div 10000000

\* A real symmetric matrix has no negative eigenvalue exactly if none of
\* its principal minors is negative.
PositiveSemidefinite(rho) ==
  \A S \in (SUBSET (1..Len(rho))) \ {{}} : Det(rho, Sorted(S), Sorted(S)) >= -RhoTol

ValidRho(rho) ==
  /\ Abs(Trace(rho) - Scale) <= RhoTol
  /\ \A r, c \in 1..Len(rho) : rho[r][c] = rho[c][r]
  /\ PositiveSemidefinite(rho)

\* C20: the density matrix of the device has trace 1 and no negative
\* eigenvalue at the start and after every gate and every channel of the
\* noisy circuits, for every bit flip, depolarizing and amplitude damping
\* probability the notebook uses.
\* Moreover every one of the three channels, with any of these probabilities
\* or with probability 0 or 1, applied to either wire of any state a first
\* evaluation passes through, gives such a matrix again.
Probabilities == ps \cup gammas \cup {0, Scale}

ChannelKeepsValid(rho) ==
  \A ch \in Channels, pr \in Probabilities, w \in 0..1 :
    ValidRho(ApplyGate("noisy", rho, Op(ch, pr, <<w>>)))

C20_ValidDensityMatrix ==
  nb = "noisy" =>
    /\ ValidRho(dev_state)
    /\ (call # NoCall /\ evals = 0 => ChannelKeepsValid(dev_state))

\* The amplitude damping circuit with the optimized probability has been
\* evaluated: its final state is mixed, with population on |01>, and valid.
C20_Witness ==
  /\ nb = "noisy"
  /\ call = NoCall
  /\ last.name = "damping_circuit"
  /\ last.arg = Dec(0, 12710000)
  /\ dev_state[2][2] > 0
  /\ dev_state[1][1] > dev_state[4][4]
  /\ ValidRho(dev_state)

\* How far the circuit's value may be from the product of the cosines by
\* the rounding of the products: 4e-8.
RotTol == Scale \div 25000000

\* C21: circuit([phi1, phi2]), RX(phi1) then RY(phi2) on |0>, returns the
\* expectation value cos(phi1) cos(phi2) of PauliZ, a value between -1 and
\* 1, and 0.8515406 for phi1 = 0.54 and phi2 = 0.12.
C21_CosProduct ==
  nb = "rotcall" =>
    \A c \in RotCalls :
      seen[c].n > 0 =>
        /\ Abs(seen[c].val - MulVal(Cos(params[1]), Cos(params[2]))) <= RotTol
        /\ seen[c].val >= -Scale
        /\ seen[c].val <= Scale
        /\ (params = <<Dec(0, 54000000), Dec(0, 12000000)>> =>
              Abs(seen[c].val - Dec(0, 85154059)) <= RotTol)

C21_Witness ==
  /\ nb = "rotcall"
  /\ params = <<Dec(0, 54000000), Dec(0, 12000000)>>
  /\ call = NoCall
  /\ \A c \in RotCalls : seen[c].n = 1 /\ Abs(seen[c].val - Dec(0, 85154059)) <= RotTol

\* The squared distance of the circuit's value from -1, and the update a
\* gradient descent on it would make.
SquaredDistance(p) == Only({MulVal(d, d) : d \in {circuit_rot(p) + Scale}})

SquaredDistanceStep(p) ==
  Only({Tup([k \in 1..Len(p) |-> p[k] - MulVal(stepsize_rot, MulVal(2 * d, g[k]))]) :
          d \in {circuit_rot(p) + Scale}, g \in {grad_rot(p)}})

\* C22 as claimed: the loop of the rotation notebook descends the cost
\* (circuit(params) + 1)^2 from [0.011, 0.012] with rate 0.4, and that cost
\* is below 1e-6 when its 100 steps are done.
C22_SquaredCostDescent ==
  /\ [][nb = "rotation" /\ nupdates' # nupdates => params' = SquaredDistanceStep(params)]_vars
  /\ [](nb = "rotation" /\ pc = "done" => SquaredDistance(params) < Tolerance)

\* The step after which the notebook calls the optimization converged.
ConvergedAfter == 40

\* C22 as amended: the cost the loop descends is circuit(params) itself,
\* whose minimum is -1; from [0.011, 0.012] with rate 0.4 it is within 1e-6
\* of -1 after 40 steps and stays there up to the 100th step.
C22_ReachesMinimum ==
  nb = "rotation" /\ nupdates >= ConvergedAfter =>
    /\ cost(nb, params) = circuit_rot(params)
    /\ cost(nb, params) + Scale < Tolerance
    /\ cost(nb, params) >= -Scale

C22_Witness ==
  /\ nb = "rotation"
  /\ pc = "done"
  /\ nupdates = steps_rot
  /\ cost(nb, params) + Scale < Tolerance
  /\ Abs(params[2] - Pi) < Tolerance

\* The density matrix of (|00> + |11>) / sqrt 2.
BellRho ==
  <<<<Scale \div 2, 0, 0, Scale \div 2>>, <<0, 0, 0, 0>>, <<0, 0, 0, 0>>,
    <<Scale \div 2, 0, 0, Scale \div 2>>>>

\* C23: circuit(), a Hadamard on wire 0 and a CNOT on wires 0 and 1 from
\* |00>, returns exactly 1 for the expectation value of Z on wire 0 times Z
\* on wire 1, and leaves the device in the Bell state.
C23_BellZZ ==
  nb = "noisy" =>
    /\ (seen[[name |-> "circuit", arg |-> 0]].n > 0 =>
          seen[[name |-> "circuit", arg |-> 0]].val = Scale)
    /\ (call = NoCall /\ last = [name |-> "circuit", arg |-> 0] => dev_state = BellRho)

C23_Witness ==
  /\ nb = "noisy"
  /\ call = NoCall
  /\ last = [name |-> "circuit", arg |-> 0]
  /\ seen[last].n = 1
  /\ seen[last].val = Scale
  /\ dev_state = BellRho

\* (1 - 2 p)^2
BitFlipZZ(pr) == Only({MulVal(d, d) : d \in {Scale - 2 * pr}})

\* How far the value may be off by the rounding of the products: 4e-8.
BitFlipTol == Scale \div 25000000

\* C24: bitflip_circuit(p), a bit flip with probability p on each wire of
\* the Bell state, returns (1 - 2 p)^2 for the expectation value of Z on
\* wire 0 times Z on wire 1, for every p of ps; for p = 0.2 it returns 0.36.
C24_BitFlipZZ ==
  nb = "noisy" =>
    \A pr \in ps :
      seen[[name |-> "bitflip_circuit", arg |-> pr]].n > 0 =>
        /\ Abs(seen[[name |-> "bitflip_circuit", arg |-> pr]].val - BitFlipZZ(pr)) <= BitFlipTol
        /\ (pr = Dec(0, 20000000) =>
              Abs(seen[[name |-> "bitflip_circuit", arg |-> pr]].val - Dec(0, 36000000))
                <= BitFlipTol)

C24_Witness ==
  /\ nb = "noisy"
  /\ call = NoCall
  /\ last = [name |-> "bitflip_circuit", arg |-> Dec(0, 20000000)]
  /\ Abs(seen[last].val - Dec(0, 36000000)) <= BitFlipTol
  /\ Abs(dev_state[1][1] - Dec(0, 34000000)) <= BitFlipTol
  /\ Abs(dev_state[2][3] - Dec(0, 16000000)) <= BitFlipTol

\* The job of the notebook has been submitted.
Submitted == nb = "xqc" /\ pc # "init"

ZeroGradient(n, p) == \A k \in 1..Len(p) : grad(n, p)[k] = 0

\* The descents started at a critical point.
CriticalStarts == {"photon0", "gaussian0"}

Unused(n) == IF n = "gaussian" THEN {2, 3} ELSE IF n = "photon" THEN {2} ELSE {}

\* C28: the parameters the cost does not depend on have their initial value
\* after every step of the Gaussian and of the photon-redirection descent,
\* and at the end of the run the remaining parameter, and only it, has moved.
C28_UnusedParametersKept ==
  (nb \in {"gaussian", "photon"}) =>
    /\ \A k \in Unused(nb) : params[k] = init_params(nb)[k]
    /\ (pc = "done" =>
          \A k \in (1..Len(params)) \ Unused(nb) : params[k] # init_params(nb)[k])

\* The photon-redirection descent has ended at theta = pi/2 with phi still
\* 0.01.
C28_Witness ==
  /\ nb = "photon"
  /\ pc = "done"
  /\ nupdates = steps_photon
  /\ Abs(params[1] - HalfPi) < Scale \div 1000000
  /\ params[2] = Dec(0, 1000000)

\* The parameters and the optimizer after k iterations of the
\* state-preparation loop, recomputed from the initial parameters.
RECURSIVE Trained(_)
Trained(k) ==
  IF k = 0 THEN [p |-> params_prep, a |-> NewAdam(params_prep)]
  ELSE Only({Only({[p |-> AdamUpdate(s.p, a2), a |-> a2] :
                     a2 \in {AdamMoments(s.a, backward(s.p))}}) :
               s \in {Trained(k - 1)}})

\* The losses evaluated in the first k iterations, in order.
Losses(k) == Tup([j \in 1..k |-> loss_prep(Trained(j - 1).p)])

\* The iteration, counted from 0, that evaluated the lowest of these losses
\* first.
LowestAt(k) ==
  Only({(CHOOSE j \in 1..k : \A h \in 1..k : ls[j] < ls[h] \/ (ls[j] = ls[h] /\ j <= h)) - 1 :
          ls \in {Losses(k)}})

\* C29: in the state-preparation loop best_cost is the lowest loss evaluated
\* so far and, once a loss below the initial cost has been recorded,
\* best_params holds the parameters at which that loss was evaluated; the
\* output Bloch vector is the circuit's value at those parameters.
C29_BestParamsKept ==
  (nb = "preploop" /\ pc \in {"train", "done"} /\ i > 0) =>
    \E j \in {LowestAt(i)} :
      /\ best.cost = Losses(i)[j + 1]
      /\ (best.ref = "params" =>
            /\ BestParams(best, params) = Trained(j).p
            /\ (pc = "done" =>
                  \A l \in 1..3 : vals[l] = Value(output_bloch(Trained(j).p)[l])))

\* The gradient the notebook prints for dcircuit([0.54, 0.12]).
PrintedGradient == <<-Dec(0, 51043865), -Dec(0, 10267820)>>

=============================================================================
